---- MODULE Spec2Model ----
(***************************************************************************)
(* Model of webapp/static/js/telegram_auth.js: the Telegram WebApp         *)
(* initData handshake.  The script is an IIFE run once per page load; two  *)
(* page loads are modelled.  Strings are sequences of one-character        *)
(* strings so that JSON encoding and parsing are computed, not assumed.    *)
(***************************************************************************)
EXTENDS Integers, Sequences, FiniteSets, TLC

VARIABLES window, pc, calls, resp, settled, chain

vars == <<window, pc, calls, resp, settled, chain>>

\* Longest initData string the host bridge hands out in the model.
MaxInitLen == 1

\* The page loads (each runs the IIFE once).
Invocations == {1, 2}

\* Characters initData is made of: a plain one and the two JSON must escape.
InitChars == {"a", "\"", "\\"}

-----------------------------------------------------------------------------
(* JavaScript values, tagged so that values of different types compare.    *)

JUndefined == [t |-> "undefined", v |-> <<>>]
JNull == [t |-> "null", v |-> <<>>]
JBool(b) == [t |-> "boolean", v |-> b]
JStr(s) == [t |-> "string", v |-> s]
\* members: a sequence of <<key, value>> pairs
JObj(members) == [t |-> "object", v |-> members]
JErr(name, message) == [t |-> "error", v |-> <<name, message>>]

Chars(n) == UNION {[1..k -> InitChars] : k \in 0..n}

\* String literals of the script, as character sequences.
EndpointUrl == "/api/v1/auth/telegram-webapp"
InitDataKey == <<"i","n","i","t","_","d","a","t","a">>

-----------------------------------------------------------------------------
(* JSON.stringify of a string and of the object {init_data: X}.            *)

RECURSIVE QuoteChars(_)
QuoteChars(s) ==
  IF s = <<>> THEN <<>>
  ELSE LET c == Head(s)
       IN (IF c = "\"" \/ c = "\\" THEN <<"\\", c>> ELSE <<c>>)
            \o QuoteChars(Tail(s))

JSONQuote(s) == <<"\"">> \o QuoteChars(s) \o <<"\"">>

\* JSON.stringify({init_data: x}) for a string x
JSONStringify(x) ==
  <<"{">> \o JSONQuote(InitDataKey) \o <<":">> \o JSONQuote(x) \o <<"}">>

-----------------------------------------------------------------------------
(* JSON.parse, as resp.json() applies it to the response body.  The subset *)
(* covers whitespace, true/false/null, strings with the \" \\ \/ escapes   *)
(* and objects; every body of the model lies inside it.                    *)

ParseFail == [ok |-> FALSE, val |-> JUndefined, rest |-> <<>>]
ParseOk(v, r) == [ok |-> TRUE, val |-> v, rest |-> r]

StartsWith(s, p) == Len(s) >= Len(p) /\ SubSeq(s, 1, Len(p)) = p
Drop(s, n) == SubSeq(s, n + 1, Len(s))

RECURSIVE SkipWs(_)
SkipWs(s) == IF s # <<>> /\ Head(s) = " " THEN SkipWs(Tail(s)) ELSE s

\* s is the text after the opening quote; acc the characters read so far
RECURSIVE ParseStringBody(_, _)
ParseStringBody(s, acc) ==
  IF s = <<>> THEN ParseFail
  ELSE IF Head(s) = "\"" THEN ParseOk(JStr(acc), Tail(s))
  ELSE IF Head(s) = "\\"
       THEN IF Len(s) >= 2 /\ s[2] \in {"\"", "\\", "/"}
            THEN ParseStringBody(Drop(s, 2), Append(acc, s[2]))
            ELSE ParseFail
  ELSE ParseStringBody(Tail(s), Append(acc, Head(s)))

RECURSIVE ParseValue(_)
RECURSIVE ParseMembers(_, _)

ParseValue(s0) ==
  LET s == SkipWs(s0)
  IN IF s = <<>> THEN ParseFail
     ELSE IF StartsWith(s, <<"t","r","u","e">>) THEN ParseOk(JBool(TRUE), Drop(s, 4))
     ELSE IF StartsWith(s, <<"f","a","l","s","e">>) THEN ParseOk(JBool(FALSE), Drop(s, 5))
     ELSE IF StartsWith(s, <<"n","u","l","l">>) THEN ParseOk(JNull, Drop(s, 4))
     ELSE IF Head(s) = "\"" THEN ParseStringBody(Tail(s), <<>>)
     ELSE IF Head(s) = "{"
          THEN LET s1 == SkipWs(Tail(s))
               IN IF s1 # <<>> /\ Head(s1) = "}"
                  THEN ParseOk(JObj(<<>>), Tail(s1))
                  ELSE ParseMembers(s1, <<>>)
     ELSE ParseFail

\* s starts at a member's key; acc the members read so far
ParseMembers(s, acc) ==
  IF s = <<>> \/ Head(s) # "\"" THEN ParseFail
  ELSE LET k == ParseStringBody(Tail(s), <<>>)
       IN IF ~k.ok THEN ParseFail
          ELSE LET s2 == SkipWs(k.rest)
               IN IF s2 = <<>> \/ Head(s2) # ":" THEN ParseFail
                  ELSE LET v == ParseValue(Tail(s2))
                       IN IF ~v.ok THEN ParseFail
                          ELSE LET s3 == SkipWs(v.rest)
                                   m == Append(acc, <<k.val.v, v.val>>)
                               IN IF s3 = <<>> THEN ParseFail
                                  ELSE IF Head(s3) = ","
                                       THEN ParseMembers(SkipWs(Tail(s3)), m)
                                  ELSE IF Head(s3) = "}"
                                       THEN ParseOk(JObj(m), Tail(s3))
                                  ELSE ParseFail

JSONParse(s) ==
  LET r == ParseValue(s)
  IN IF r.ok /\ SkipWs(r.rest) = <<>> THEN ParseOk(r.val, <<>>) ELSE ParseFail

-----------------------------------------------------------------------------
(* The environment of a page load and the responses of the backend.        *)

\* window.Telegram: missing, present without WebApp, or carrying WebApp;
\* WebApp.initData: undefined or a string.
Windows ==
  {[Telegram |-> k, initData |-> JUndefined] : k \in {"undefined", "noWebApp"}}
  \cup {[Telegram |-> "WebApp", initData |-> d] :
          d \in {JUndefined} \cup {JStr(x) : x \in Chars(MaxInitLen)}}

NoWindow == [Telegram |-> "undefined", initData |-> JUndefined]

BodyOkTrue == <<"{","\"","o","k","\"",":","t","r","u","e","}">>
BodyInvalidSignature ==
  <<"i","n","v","a","l","i","d"," ","s","i","g","n","a","t","u","r","e">>
BodyEmpty == <<>>

Statuses == {200, 204, 401}
Bodies == {BodyOkTrue, BodyInvalidSignature, BodyEmpty}

\* readable = FALSE: the body stream fails while it is read
Responses == [status : Statuses, body : Bodies, readable : BOOLEAN]

NoResponse == [status |-> 0, body |-> <<>>, readable |-> FALSE]

-----------------------------------------------------------------------------
(* The calls the script makes on its collaborators, in order.              *)

ReadyCall == [op |-> "tg.ready", args |-> <<>>]
ConsoleCall(level, msg) == [op |-> level, args |-> <<msg>>]
ConsoleCall2(level, msg, val) == [op |-> level, args |-> <<msg, val>>]
FetchCall(url, init) == [op |-> "fetch", args |-> <<url, init>>]

\* the calls of invocation i on one collaborator, in order
CallsOf(i, op) == SelectSeq(calls[i], LAMBDA c : c.op = op)
Requests(i) == CallsOf(i, "fetch")
Warnings(i) == CallsOf(i, "console.warn")
Logs(i) == CallsOf(i, "console.log")
Errors(i) == CallsOf(i, "console.error")
ReadyCalls(i) == CallsOf(i, "tg.ready")
Console(i) == SelectSeq(calls[i], LAMBDA c : c.op # "fetch" /\ c.op # "tg.ready")

\* mutant: only window.Telegram is tested
BridgeMissing_OnlyTelegram(w) == w.Telegram = "undefined"

\* line 2: !window.Telegram || !Telegram.WebApp
BridgeMissing(w) == w.Telegram = "undefined" \/ w.Telegram = "noWebApp"

\* mutant: only an undefined initData is rejected
InitDataEmpty_OnlyUndefined(w) == w.initData.t = "undefined"

\* line 10: !tg.initData || tg.initData.length === 0
InitDataEmpty(w) ==
  w.initData.t = "undefined" \/ w.initData.v = <<>> \/ Len(w.initData.v) = 0

\* mutant: the body is concatenated by hand, without escaping
FetchInit_NoEscape(w) ==
  [method |-> "POST",
   headers |-> [ContentType |-> "application/json"],
   credentials |-> "include",
   body |-> <<"{">> \o JSONQuote(InitDataKey) \o <<":", "\"">>
              \o w.initData.v \o <<"\"", "}">>]

\* lines 15-24: the second argument of fetch
FetchInit(w) ==
  [method |-> "POST",
   headers |-> [ContentType |-> "application/json"],
   credentials |-> "include",
   body |-> JSONStringify(w.initData.v)]

\* mutant: every status counts as a success
RespOk_AnyStatus(r) == r.status >= 200

\* mutant: only 200 counts as a success
RespOk_Only200(r) == r.status = 200

\* line 26: resp.ok
RespOk(r) == r.status >= 200 /\ r.status <= 299

SyncPcs == {"probing", "ready", "check", "fetch"}

\* run to completion: the synchronous part of one invocation is not
\* interleaved with another invocation's steps
CanRun(i) == \A j \in Invocations \ {i} : pc[j] \notin SyncPcs

Init ==
  /\ window = [i \in Invocations |-> NoWindow]
  /\ pc = [i \in Invocations |-> "not_started"]
  /\ calls = [i \in Invocations |-> <<>>]
  \* the argument of the first .then handler
  /\ resp = [i \in Invocations |-> NoResponse]
  \* the value or the error the promise chain carries
  /\ settled = [i \in Invocations |-> JUndefined]
  \* the promise .catch returns
  /\ chain = [i \in Invocations |-> "none"]

\* line 1: a page load runs the IIFE in the environment w
PageLoad(i, w) ==
  /\ pc[i] = "not_started"
  /\ CanRun(i)
  /\ window' = [window EXCEPT ![i] = w]
  /\ pc' = [pc EXCEPT ![i] = "probing"]
  /\ UNCHANGED <<calls, resp, settled, chain>>

\* lines 2-5
BridgeGuard(i) ==
  /\ pc[i] = "probing"
  /\ IF BridgeMissing(window[i])
     THEN /\ calls' = [calls EXCEPT ![i] =
                 Append(@, ConsoleCall("console.warn", "Telegram WebApp API not found"))]
          /\ pc' = [pc EXCEPT ![i] = "aborted"]
     ELSE /\ pc' = [pc EXCEPT ![i] = "ready"]
          /\ UNCHANGED calls
  /\ UNCHANGED <<window, resp, settled, chain>>

\* lines 7-8
Ready(i) ==
  /\ pc[i] = "ready"
  /\ calls' = [calls EXCEPT ![i] = Append(@, ReadyCall)]
  /\ pc' = [pc EXCEPT ![i] = "check"]
  /\ UNCHANGED <<window, resp, settled, chain>>

\* mutant: the return after the warning is missing
InitDataGuard_NoReturn(i) ==
  /\ pc[i] = "check"
  /\ IF InitDataEmpty(window[i])
     THEN calls' = [calls EXCEPT ![i] =
                 Append(@, ConsoleCall("console.warn", "No initData from Telegram"))]
     ELSE UNCHANGED calls
  /\ pc' = [pc EXCEPT ![i] = "fetch"]
  /\ UNCHANGED <<window, resp, settled, chain>>

\* lines 10-13
InitDataGuard(i) ==
  /\ pc[i] = "check"
  /\ IF InitDataEmpty(window[i])
     THEN /\ calls' = [calls EXCEPT ![i] =
                 Append(@, ConsoleCall("console.warn", "No initData from Telegram"))]
          /\ pc' = [pc EXCEPT ![i] = "aborted"]
     ELSE /\ pc' = [pc EXCEPT ![i] = "fetch"]
          /\ UNCHANGED calls
  /\ UNCHANGED <<window, resp, settled, chain>>

\* mutant: a re-entrancy guard, the request is skipped once another
\* invocation has issued one
Fetch_Guarded(i) ==
  /\ pc[i] = "fetch"
  /\ IF \E j \in Invocations \ {i} : Requests(j) # <<>>
     THEN /\ pc' = [pc EXCEPT ![i] = "aborted"]
          /\ UNCHANGED <<calls, chain>>
     ELSE /\ calls' = [calls EXCEPT ![i] =
                 Append(@, FetchCall(EndpointUrl, FetchInit(window[i])))]
          /\ pc' = [pc EXCEPT ![i] = "requesting"]
          /\ chain' = [chain EXCEPT ![i] = "pending"]
  /\ UNCHANGED <<window, resp, settled>>

\* lines 15-38: the request is issued and the handlers are attached
Fetch(i) ==
  /\ pc[i] = "fetch"
  /\ calls' = [calls EXCEPT ![i] =
                 Append(@, FetchCall(EndpointUrl, FetchInit(window[i])))]
  /\ pc' = [pc EXCEPT ![i] = "requesting"]
  /\ chain' = [chain EXCEPT ![i] = "pending"]
  /\ UNCHANGED <<window, resp, settled>>

\* the network: the request settles with a response of any status
FetchFulfil(i, r) ==
  /\ pc[i] = "requesting"
  /\ CanRun(i)
  /\ resp' = [resp EXCEPT ![i] = r]
  /\ pc' = [pc EXCEPT ![i] = "responded"]
  /\ UNCHANGED <<window, calls, settled, chain>>

\* the network: the request fails, fetch rejects with a TypeError
FetchReject(i) ==
  /\ pc[i] = "requesting"
  /\ CanRun(i)
  /\ settled' = [settled EXCEPT ![i] = JErr("TypeError", <<>>)]
  /\ pc' = [pc EXCEPT ![i] = "rejected"]
  /\ UNCHANGED <<window, calls, resp, chain>>

\* lines 25-31, up to the await or the return
OnResponse(i) ==
  /\ pc[i] = "responded"
  /\ CanRun(i)
  /\ pc' = [pc EXCEPT ![i] =
              IF ~RespOk(resp[i]) THEN "reading_text" ELSE "reading_json"]
  /\ UNCHANGED <<window, calls, resp, settled, chain>>

\* lines 27-28: resp.text() settles; throw new Error(txt)
TextSettle(i) ==
  /\ pc[i] = "reading_text"
  /\ CanRun(i)
  /\ settled' = [settled EXCEPT ![i] =
                   IF resp[i].readable
                   THEN JErr("Error", resp[i].body)
                   ELSE JErr("TypeError", <<>>)]
  /\ pc' = [pc EXCEPT ![i] = "rejected"]
  /\ UNCHANGED <<window, calls, resp, chain>>

\* mutant: a body that does not parse resolves to undefined
JsonOutcome_Swallow(r) ==
  IF ~r.readable THEN [ok |-> FALSE, val |-> JErr("TypeError", <<>>)]
  ELSE LET p == JSONParse(r.body)
       IN IF p.ok THEN [ok |-> TRUE, val |-> p.val]
          ELSE [ok |-> TRUE, val |-> JUndefined]

\* the outcome of resp.json(): the body read and JSON.parse
JsonOutcome(r) ==
  IF ~r.readable THEN [ok |-> FALSE, val |-> JErr("TypeError", <<>>)]
  ELSE LET p == JSONParse(r.body)
       IN IF p.ok THEN [ok |-> TRUE, val |-> p.val]
          ELSE [ok |-> FALSE, val |-> JErr("SyntaxError", <<>>)]

\* line 30: resp.json() settles
JsonSettle(i) ==
  /\ pc[i] = "reading_json"
  /\ CanRun(i)
  /\ settled' = [settled EXCEPT ![i] = JsonOutcome(resp[i]).val]
  /\ pc' = [pc EXCEPT ![i] =
              IF JsonOutcome(resp[i]).ok THEN "parsed" ELSE "rejected"]
  /\ UNCHANGED <<window, calls, resp, chain>>

\* mutant: the success is not logged
OnData_Silent(i) ==
  /\ pc[i] = "parsed"
  /\ CanRun(i)
  /\ pc' = [pc EXCEPT ![i] = "success"]
  /\ chain' = [chain EXCEPT ![i] = "fulfilled"]
  /\ UNCHANGED <<window, calls, resp, settled>>

\* lines 32-35
OnData(i) ==
  /\ pc[i] = "parsed"
  /\ CanRun(i)
  /\ calls' = [calls EXCEPT ![i] =
                 Append(@, ConsoleCall2("console.log", "Telegram auth OK", settled[i]))]
  /\ pc' = [pc EXCEPT ![i] = "success"]
  /\ chain' = [chain EXCEPT ![i] = "fulfilled"]
  /\ UNCHANGED <<window, resp, settled>>

\* mutant: the handler logs and retries the request
OnError_Retry(i) ==
  /\ pc[i] = "rejected"
  /\ CanRun(i)
  /\ calls' = [calls EXCEPT ![i] =
                 Append(Append(@, ConsoleCall2("console.error", "Telegram auth failed", settled[i])),
                        FetchCall(EndpointUrl, FetchInit(window[i])))]
  /\ pc' = [pc EXCEPT ![i] = "requesting"]
  /\ UNCHANGED <<window, resp, settled, chain>>

\* lines 36-38
OnError(i) ==
  /\ pc[i] = "rejected"
  /\ CanRun(i)
  /\ calls' = [calls EXCEPT ![i] =
                 Append(@, ConsoleCall2("console.error", "Telegram auth failed", settled[i]))]
  /\ pc' = [pc EXCEPT ![i] = "failure"]
  /\ chain' = [chain EXCEPT ![i] = "fulfilled"]
  /\ UNCHANGED <<window, resp, settled>>

\* the steps the script takes by itself
Script(i) ==
  \/ BridgeGuard(i)
  \/ Ready(i)
  \/ InitDataGuard(i)
  \/ Fetch(i)
  \/ OnResponse(i)
  \/ OnData(i)
  \/ OnError(i)

\* the steps that wait for the network: the request and the body read
Network(i) ==
  \/ \E r \in Responses : FetchFulfil(i, r)
  \/ FetchReject(i)
  \/ TextSettle(i)
  \/ JsonSettle(i)

Next ==
  \E i \in Invocations :
    \/ \E w \in Windows : PageLoad(i, w)
    \/ Script(i)
    \/ Network(i)

Spec == Init /\ [][Next]_vars

-----------------------------------------------------------------------------
(* Properties.                                                             *)

Started(i) == pc[i] # "not_started"
PastGuards(i) == pc[i] \notin {"not_started", "probing", "ready", "check", "fetch"}
HasBridge(i) == window[i].Telegram = "WebApp"
HasInitData(i) ==
  HasBridge(i) /\ window[i].initData.t = "string" /\ Len(window[i].initData.v) > 0
Is2xx(r) == r.status \in 200..299
Responded(i) == resp[i] # NoResponse
LastCall(i) == calls[i][Len(calls[i])]

\* C1: with the bridge present and a non-empty initData X, once the
\* synchronous part has run exactly one request has been issued, whatever
\* the state of the response: a POST to /api/v1/auth/telegram-webapp with
\* the JSON content type, credentials included, and a body that is the JSON
\* text of {init_data: X} (it parses back to that object).
C1_ExactlyOneRequest ==
  \A i \in Invocations :
    /\ Len(Requests(i)) <= 1
    /\ (HasInitData(i) /\ PastGuards(i)) =>
         /\ Len(Requests(i)) = 1
         /\ LET req == Requests(i)[1]
                X == window[i].initData.v
            IN /\ req.args[1] = "/api/v1/auth/telegram-webapp"
               /\ req.args[2].method = "POST"
               /\ req.args[2].headers = [ContentType |-> "application/json"]
               /\ req.args[2].credentials = "include"
               /\ req.args[2].body = JSONStringify(X)
               /\ JSONParse(req.args[2].body) =
                    ParseOk(JObj(<< <<InitDataKey, JStr(X)>> >>), <<>>)

\* an initData with a character JSON escapes, request issued and answered
C1_Witness ==
  \E i \in Invocations :
    /\ window[i] = [Telegram |-> "WebApp", initData |-> JStr(<<"\"">>)]
    /\ pc[i] = "success"
    /\ Requests(i)[1].args[2].body =
         <<"{","\"","i","n","i","t","_","d","a","t","a","\"",":","\"","\\","\"","\"","}">>

\* C2: with the host bridge absent (window.Telegram missing, or present
\* without WebApp) no request is issued, ready() is never called, no success
\* or failure is logged, and the invocation ends after exactly one warning.
C2_NoBridge ==
  \A i \in Invocations :
    (Started(i) /\ window[i].Telegram \in {"undefined", "noWebApp"}) =>
      /\ Requests(i) = <<>>
      /\ ReadyCalls(i) = <<>>
      /\ Logs(i) = <<>>
      /\ Errors(i) = <<>>
      /\ pc[i] \in {"probing", "aborted"}
      /\ pc[i] = "probing" => calls[i] = <<>>
      /\ pc[i] = "aborted" =>
           calls[i] = <<ConsoleCall("console.warn", "Telegram WebApp API not found")>>

\* window.Telegram exists, Telegram.WebApp does not, and the script has ended
C2_Witness ==
  \E i \in Invocations :
    /\ window[i].Telegram = "noWebApp"
    /\ pc[i] = "aborted"
    /\ Len(Warnings(i)) = 1

\* C3: with the bridge present and initData empty or absent, ready() is
\* called exactly once and first, then one warning is recorded and the
\* invocation ends; no request is ever issued.
C3_EmptyInitData ==
  \A i \in Invocations :
    (Started(i) /\ HasBridge(i) /\ ~HasInitData(i)) =>
      /\ Requests(i) = <<>>
      /\ pc[i] \in {"probing", "ready", "check", "aborted"}
      /\ pc[i] \in {"probing", "ready"} => calls[i] = <<>>
      /\ pc[i] = "check" => calls[i] = <<ReadyCall>>
      /\ pc[i] = "aborted" =>
           /\ Len(calls[i]) = 2
           /\ calls[i][1] = ReadyCall
           /\ calls[i][2] = ConsoleCall("console.warn", "No initData from Telegram")

\* initData is the empty string and the script has ended
C3_Witness ==
  \E i \in Invocations :
    /\ window[i] = [Telegram |-> "WebApp", initData |-> JStr(<<>>)]
    /\ pc[i] = "aborted"
    /\ Len(ReadyCalls(i)) = 1

\* C4: when the request settles with a non-2xx status and the body text is
\* T, the body is read as text and never parsed, the failure raised is
\* Error(T), the failure handler logs it, and no success is logged.
C4_Non2xx ==
  \A i \in Invocations :
    (Responded(i) /\ ~Is2xx(resp[i]) /\ resp[i].readable) =>
      /\ pc[i] \in {"responded", "reading_text", "rejected", "failure"}
      /\ Logs(i) = <<>>
      /\ pc[i] \in {"rejected", "failure"} => settled[i] = JErr("Error", resp[i].body)
      /\ pc[i] = "failure" =>
           Errors(i) = <<ConsoleCall2("console.error", "Telegram auth failed",
                                      JErr("Error", resp[i].body))>>

\* a 401 with the body "invalid signature" has been logged as a failure
C4_Witness ==
  \E i \in Invocations :
    /\ resp[i] = [status |-> 401, body |-> BodyInvalidSignature, readable |-> TRUE]
    /\ pc[i] = "failure"
    /\ LastCall(i).args[2].v[2] = BodyInvalidSignature

Parses(r) == r.readable /\ JSONParse(r.body).ok
Terminal(i) == pc[i] \in {"aborted", "success", "failure"}

\* C5 as stated: whenever the request settles with a 2xx status, the body
\* is parsed and the parsed value is what the finished invocation has logged
\* as the success payload.
C5_Original ==
  \A i \in Invocations :
    (Responded(i) /\ Is2xx(resp[i]) /\ Terminal(i)) =>
      /\ pc[i] = "success"
      /\ Len(Logs(i)) = 1

\* C5, amended: when the request settles with a 2xx status and the body is
\* read and parses as JSON, no failure is raised or logged, the finished
\* invocation has logged the parsed value as the success payload, and
\* nothing follows that log: it is the last call and the request stays the
\* only one.
C5_SuccessLogged ==
  \A i \in Invocations :
    /\ (Responded(i) /\ Is2xx(resp[i]) /\ Parses(resp[i])) =>
         /\ pc[i] \in {"responded", "reading_json", "parsed", "success"}
         /\ Errors(i) = <<>>
         /\ pc[i] = "success" =>
              Logs(i) = <<ConsoleCall2("console.log", "Telegram auth OK",
                                       JSONParse(resp[i].body).val)>>
    /\ Logs(i) # <<>> =>
         /\ LastCall(i).op = "console.log"
         /\ Len(Requests(i)) = 1
         /\ Errors(i) = <<>>
         /\ pc[i] = "success"

\* a 2xx other than 200 with the body {"ok":true}: the object is logged
C5_Witness ==
  \E i \in Invocations :
    /\ resp[i] = [status |-> 204, body |-> BodyOkTrue, readable |-> TRUE]
    /\ pc[i] = "success"
    /\ LastCall(i).args[2] = JObj(<< << <<"o", "k">>, JBool(TRUE) >> >>)

\* C6: a failure raised after the request was issued (the request rejects,
\* the status is not 2xx, the body read or the parse fails) reaches the one
\* .catch handler, which logs it exactly once; the attempt ends there: no
\* request follows, and the promise .catch returns is fulfilled, not rejected.
C6_Invariant ==
  \A i \in Invocations :
    /\ Len(Errors(i)) <= 1
    /\ Len(Requests(i)) <= 1
    /\ chain[i] # "rejected"
    /\ pc[i] = "rejected" =>
         /\ settled[i].t = "error"
         /\ Errors(i) = <<>>
         /\ Len(Requests(i)) = 1
    /\ Errors(i) # <<>> =>
         /\ pc[i] = "failure"
         /\ LastCall(i) = ConsoleCall2("console.error", "Telegram auth failed", settled[i])
         /\ settled[i].t = "error"
         /\ chain[i] = "fulfilled"

\* the only step out of a raised failure is the handler's log
C6_Caught ==
  \A i \in Invocations :
    (pc[i] = "rejected" /\ pc'[i] # "rejected") =>
      /\ pc'[i] = "failure"
      /\ calls'[i] = Append(calls[i],
                       ConsoleCall2("console.error", "Telegram auth failed", settled[i]))

C6_FailureTerminal == []C6_Invariant /\ [][C6_Caught]_vars

\* a network error (no response at all) has been logged
C6_Witness ==
  \E i \in Invocations :
    /\ pc[i] = "failure"
    /\ ~Responded(i)
    /\ settled[i] = JErr("TypeError", <<>>)
    /\ Len(Errors(i)) = 1

\* C7: two page loads with a non-empty initData issue one request each,
\* whatever state the other invocation is in, and an invocation's calls
\* depend on its own environment, position and response only: two
\* invocations that agree on these have made the same calls.
C7_Independent ==
  \A i, j \in Invocations :
    /\ (HasInitData(i) /\ PastGuards(i)) => Len(Requests(i)) = 1
    /\ (window[i] = window[j] /\ pc[i] = pc[j] /\ resp[i] = resp[j]
          /\ settled[i] = settled[j]) => calls[i] = calls[j]
    /\ (i # j /\ HasInitData(i) /\ HasInitData(j) /\ PastGuards(i) /\ PastGuards(j)) =>
         Len(Requests(i)) + Len(Requests(j)) = 2

\* both loads carried the same initData; one failed, the other succeeded
C7_Witness ==
  /\ window[1] = window[2]
  /\ HasInitData(1)
  /\ pc[1] = "failure"
  /\ pc[2] = "success"
  /\ Len(Requests(1)) = 1
  /\ Len(Requests(2)) = 1

\* the control states of section 4.1
Phase(p) ==
  CASE p = "not_started" -> 0
    [] p \in {"probing", "ready", "check", "fetch"} -> 1
    [] p \in {"requesting", "responded", "reading_text", "reading_json",
              "parsed", "rejected"} -> 2
    [] p \in {"aborted", "success", "failure"} -> 3

\* C8: an invocation moves forward only through not-started, probing,
\* requesting, settled: no step goes back to an earlier state (so each is
\* entered at most once) or skips one, requesting is entered only with both
\* guards passed and ready() called, and a settled or aborted invocation
\* does nothing more.
C8_Step ==
  \A i \in Invocations :
    /\ Phase(pc'[i]) >= Phase(pc[i])
    /\ pc'[i] \in {"success", "failure"} => Phase(pc[i]) >= 2
    /\ pc'[i] = "aborted" => Phase(pc[i]) \in {1, 3}
    /\ Phase(pc'[i]) = 2 => Phase(pc[i]) \in {1, 2}
    /\ Phase(pc'[i]) = 1 => Phase(pc[i]) \in {0, 1}
    /\ Terminal(i) =>
         /\ pc'[i] = pc[i]
         /\ calls'[i] = calls[i]
         /\ window'[i] = window[i]
         /\ resp'[i] = resp[i]
         /\ settled'[i] = settled[i]
         /\ chain'[i] = chain[i]

C8_Requesting ==
  \A i \in Invocations :
    Phase(pc[i]) = 2 \/ pc[i] \in {"success", "failure"} =>
      /\ HasInitData(i)
      /\ Len(calls[i]) >= 2
      /\ calls[i][1] = ReadyCall
      /\ calls[i][2].op = "fetch"
      /\ Len(ReadyCalls(i)) = 1
      /\ Len(Requests(i)) = 1

C8_ForwardOnly == []C8_Requesting /\ [][C8_Step]_vars

\* an invocation has gone through all four states and settled as a failure
\* on a 401 whose body happens to be JSON
C8_Witness ==
  \E i \in Invocations :
    /\ pc[i] = "failure"
    /\ resp[i].status = 401
    /\ resp[i].body = BodyOkTrue
    /\ Len(calls[i]) = 3

\* C9: a success is logged only for a 2xx response whose body parses as
\* JSON; a 2xx response whose body does not parse ends in the failure
\* handler with one error logged and no success; no invocation logs both.
C9_SuccessOnlyIfParsed ==
  \A i \in Invocations :
    /\ Logs(i) # <<>> => Responded(i) /\ Is2xx(resp[i]) /\ Parses(resp[i])
    /\ ~(Logs(i) # <<>> /\ Errors(i) # <<>>)
    /\ (Responded(i) /\ Is2xx(resp[i]) /\ ~Parses(resp[i])) =>
         /\ pc[i] \in {"responded", "reading_json", "rejected", "failure"}
         /\ Logs(i) = <<>>
         /\ pc[i] \in {"rejected", "failure"} =>
              settled[i] = JErr(IF resp[i].readable THEN "SyntaxError" ELSE "TypeError", <<>>)
         /\ pc[i] = "failure" => Len(Errors(i)) = 1

\* a 200 whose body is not JSON has been logged as a failure
C9_Witness ==
  \E i \in Invocations :
    /\ resp[i] = [status |-> 200, body |-> BodyInvalidSignature, readable |-> TRUE]
    /\ pc[i] = "failure"
    /\ settled[i] = JErr("SyntaxError", <<>>)
    /\ Logs(i) = <<>>

-----------------------------------------------------------------------------
(* Termination, for one page load.  The event loop runs every queued step  *)
(* of the script; that the request and the body read settle is the         *)
(* assumption the network fairness states.                                 *)

LiveNext ==
  \/ \E w \in Windows : PageLoad(1, w)
  \/ Script(1)
  \/ Network(1)

LiveSpec ==
  /\ Init
  /\ [][LiveNext]_vars
  /\ WF_vars(Script(1))
  /\ WF_vars(Network(1))

\* C10: if the request and the body read settle, every started invocation
\* ends in a terminal state with exactly one console entry: one of the two
\* warnings, the success log or the failure log.  The script alone cannot
\* get there: while the request is pending nothing has been logged and no
\* step of the script is enabled.
C10_OneEntry ==
  \A i \in Invocations :
    /\ Len(Console(i)) <= 1
    /\ Terminal(i) =>
         /\ Len(Console(i)) = 1
         /\ \/ pc[i] = "aborted" /\ Console(i)[1].op = "console.warn"
            \/ pc[i] = "success" /\ Console(i)[1].op = "console.log"
            \/ pc[i] = "failure" /\ Console(i)[1].op = "console.error"
    /\ pc[i] \in {"requesting", "reading_text", "reading_json"} =>
         /\ Console(i) = <<>>
         /\ ~ENABLED Script(i)

C10_Terminates ==
  /\ []C10_OneEntry
  /\ \A i \in Invocations : Started(i) ~> Terminal(i)

\* the load has ended with the success log as its one console entry
C10_Witness ==
  /\ pc[1] = "success"
  /\ Len(Console(1)) = 1
  /\ Console(1)[1].args[1] = "Telegram auth OK"

====
